---- MODULE Spec2Model ----
(***************************************************************************)
(* A model of the DataStore of src/data_store.js: an observable key-value *)
(* store with derived selectors, listeners and binding adapters.          *)
(*                                                                         *)
(* JavaScript values are tagged records.  Strings (and so names) are      *)
(* sequences of chunks, so that concatenation and the prefix test of      *)
(* String.prototype.indexOf are computed and not assumed.  The store is   *)
(* single threaded and synchronous: every public method is one action,    *)
(* and the callbacks it runs are run inside it by recursive operators     *)
(* over a state record st = [store, listeners, selectors, handles, log,   *)
(* err].                                                                   *)
(***************************************************************************)
EXTENDS Integers, Sequences, FiniteSets, TLC

VARIABLES store, listeners, selectors, handles, adapters

vars == <<store, listeners, selectors, handles, adapters>>

(***************************************************************************)
(* Bounds of the model.                                                    *)
(***************************************************************************)
\* listener objects ever created (calls of addDataListener/addSelectorListener)
MaxHandles == 2
\* nesting of update calls made from inside listeners (the call stack)
MaxDepth == 2
\* adapters ever created by bindStateHook / bindState
MaxAdapters == 1

(***************************************************************************)
(* JavaScript values.                                                      *)
(***************************************************************************)
Undef == [t |-> "undefined"]
Null == [t |-> "null"]
Str(chunks) == [t |-> "string", s |-> chunks]
Num(n) == [t |-> "number", n |-> n]
Fn(id) == [t |-> "function", id |-> id]
\* a plain mapping: its keys in enumeration order and their values
Obj(keys, vals) == [t |-> "object", k |-> keys, v |-> vals]
Arr(elems) == [t |-> "array", e |-> elems]

\* typeof v
TypeOf(v) ==
  CASE v.t = "undefined" -> "undefined"
    [] v.t = "string" -> "string"
    [] v.t = "number" -> "number"
    [] v.t = "function" -> "function"
    [] OTHER -> "object"

\* a[key] of a plain mapping: the value of the last occurrence, or undefined
Prop(o, key) ==
  LET idx == {i \in 1..Len(o.k) : o.k[i] = key}
  IN IF idx = {} THEN Undef ELSE o.v[CHOOSE i \in idx : \A j \in idx : j <= i]

\* JSON.stringify's result undefined (for undefined and functions): no chunk
NoJSON == << >>

RECURSIVE Stringify(_)
RECURSIVE StringifyElems(_, _)
RECURSIVE StringifyProps(_, _, _)
\* JSON.stringify(v), a sequence of chunks
Stringify(v) ==
  CASE v.t = "undefined" -> NoJSON
    [] v.t = "function" -> NoJSON
    [] v.t = "null" -> <<"null">>
    [] v.t = "number" -> <<ToString(v.n)>>
    [] v.t = "string" -> <<"\"">> \o v.s \o <<"\"">>
    [] v.t = "array" -> <<"[">> \o StringifyElems(v.e, 1) \o <<"]">>
    [] OTHER -> <<"{">> \o StringifyProps(v, 1, TRUE) \o <<"}">>

\* the elements of an array from index i on: undefined and functions print as null
StringifyElems(e, i) ==
  IF i > Len(e) THEN << >>
  ELSE (IF i > 1 THEN <<",">> ELSE << >>)
       \o (IF Stringify(e[i]) = NoJSON THEN <<"null">> ELSE Stringify(e[i]))
       \o StringifyElems(e, i + 1)

\* the properties of a mapping from index i on: undefined and functions are left out
StringifyProps(o, i, first) ==
  IF i > Len(o.k) THEN << >>
  ELSE IF Stringify(o.v[i]) = NoJSON THEN StringifyProps(o, i + 1, first)
  ELSE (IF first THEN << >> ELSE <<",">>)
       \o <<"\"", o.k[i], "\"", ":">> \o Stringify(o.v[i])
       \o StringifyProps(o, i + 1, FALSE)

(***************************************************************************)
(* _compareValuesDiff                                                      *)
(***************************************************************************)
notFunction(o) == TypeOf(o) # "function"
bothValueNotFunction(a, b) == notFunction(a) /\ notFunction(b)
\* Object.prototype.toString.call(obj) === '[object Object]'
isObject(obj) == obj.t = "object"
nonOnbjectValueEquals(a, b) == Stringify(a) = Stringify(b)

\* a faulty isShallowDiff: every key is compared, not the first one only
isShallowDiff_allKeys(a, b) ==
  IF Len(a.k) # Len(b.k) THEN TRUE
  ELSE \E i \in 1..Len(a.k) :
         LET valueA == Prop(a, a.k[i])
             valueB == Prop(b, a.k[i])
         IN IF bothValueNotFunction(valueA, valueB)
               /\ (~isObject(valueA) /\ ~isObject(valueB))
            THEN ~nonOnbjectValueEquals(valueA, valueB)
            ELSE TRUE

isShallowDiff(a, b) ==
  IF Len(a.k) # Len(b.k) THEN TRUE
  ELSE IF Len(a.k) = 0 THEN FALSE
  ELSE LET key == a.k[1]
           valueA == Prop(a, key)
           valueB == Prop(b, key)
       IN IF bothValueNotFunction(valueA, valueB)
             /\ (~isObject(valueA) /\ ~isObject(valueB))
          THEN ~nonOnbjectValueEquals(valueA, valueB)
          ELSE TRUE

\* a faulty compareCase: the strategy for two functions is missing
compareCase_noFunctionCase(a, b) ==
  IF isObject(a) /\ isObject(b) THEN 1
  ELSE IF TypeOf(a) # TypeOf(b) THEN 2
  ELSE 4

\* the index (1..4) of the first strategy whose compareCase matches
compareCase(a, b) ==
  IF isObject(a) /\ isObject(b) THEN 1
  ELSE IF TypeOf(a) # TypeOf(b) THEN 2
  ELSE IF TypeOf(a) = "function" /\ TypeOf(b) = "function" THEN 3
  ELSE 4

compareStrategy(i, a, b) ==
  CASE i = 1 -> isShallowDiff(a, b)
    [] i = 2 -> TRUE
    [] i = 3 -> TRUE
    [] OTHER -> Stringify(a) # Stringify(b)

_compareValuesDiff(a, b) == compareStrategy(compareCase(a, b), a, b)

(***************************************************************************)
(* Names.  A name is a string: a sequence of chunks.                       *)
(***************************************************************************)
SELECTOR_PREFIX == "selector::"

\* name.indexOf(SELECTOR_PREFIX) === 0
HasPrefix(name) == Len(name) > 0 /\ name[1] = SELECTOR_PREFIX

\* if (name.indexOf(SELECTOR_PREFIX) !== 0) name = `${SELECTOR_PREFIX}${name}`
Qualify(name) == IF HasPrefix(name) THEN name ELSE <<SELECTOR_PREFIX>> \o name

(***************************************************************************)
(* Transformers: the functions handed to defineSelector, by name.          *)
(***************************************************************************)
RECURSIVE ToStr(_)
RECURSIVE JoinElems(_, _)
\* String(v), as the + operator applies it to a primitive operand
ToStr(v) ==
  CASE v.t = "undefined" -> <<"undefined">>
    [] v.t = "null" -> <<"null">>
    [] v.t = "string" -> v.s
    [] v.t = "number" -> <<ToString(v.n)>>
    [] v.t = "function" -> <<"function">>
    [] v.t = "array" -> JoinElems(v.e, 1)
    [] OTHER -> <<"[object Object]">>

JoinElems(e, i) ==
  IF i > Len(e) THEN << >>
  ELSE (IF i > 1 THEN <<",">> ELSE << >>)
       \o (IF e[i].t \in {"undefined", "null"} THEN << >> ELSE ToStr(e[i]))
       \o JoinElems(e, i + 1)

\* a missing positional argument is undefined
Arg(args, i) == IF i <= Len(args) THEN args[i] ELSE Undef

\* _transformer(...depData)
\*   "placeholder": () => {}                  (initDataStore)
\*   "format":      (u) => 'UUID-' + u        (the README's formatted_uuid)
\*   "list":        (...values) => values
Apply(transformer, args) ==
  CASE transformer = "placeholder" -> Undef
    [] transformer = "format" -> Str(<<"UUID-">> \o ToStr(Arg(args, 1)))
    [] OTHER -> Arr(args)

(***************************************************************************)
(* The state record the methods work on, and the events they leave.        *)
(*   store[name]     = [data, sels]      this.store[name]._data/_selectors *)
(*   listeners[name] = <<handle, ...>>   this.listeners[name]              *)
(*   selectors[name] = [transformer, deps, listeners]                      *)
(*   handles[h]      = [kind, target, onChange, removed]  listener objects *)
(*   log             = the events of the running public call               *)
(*   err             = "none", or the exception in flight                  *)
(***************************************************************************)
Put(f, key, val) == [x \in DOMAIN f \cup {key} |-> IF x = key THEN val ELSE f[x]]

Emit(st, ev) == [st EXCEPT !.log = Append(@, ev)]
Throw(st, e) == [st EXCEPT !.err = e]

RECURSIVE Filter(_, _)
\* list.filter(({_removed}) => !_removed)
Filter(list, hs) ==
  IF list = << >> THEN << >>
  ELSE (IF hs[Head(list)].removed THEN << >> ELSE <<Head(list)>>) \o Filter(Tail(list), hs)

\* a faulty _initDataStoreItem: a name that exists is initialized again
_initDataStoreItem_again(st, name, value) ==
  [st EXCEPT !.store = Put(@, name, [data |-> value, sels |-> << >>]),
             !.listeners = Put(@, name, << >>)]

_initDataStoreItem(st, name, value) ==
  IF name \in DOMAIN st.store THEN st
  ELSE [st EXCEPT !.store = Put(@, name, [data |-> value, sels |-> << >>]),
                  !.listeners = Put(@, name, << >>)]

RECURSIVE initItems(_, _)
\* Object.entries(data).forEach(([name, initialValue]) => ...)
initItems(st, entries) ==
  IF entries = << >> THEN st
  ELSE initItems(_initDataStoreItem(st, Head(entries)[1], Head(entries)[2]), Tail(entries))

RECURSIVE initSelectors(_, _)
\* selectors.forEach((selectorName) => ...)
initSelectors(st, names) ==
  IF names = << >> THEN st
  ELSE initSelectors(
         [st EXCEPT !.selectors = Put(@, Qualify(Head(names)),
            [transformer |-> "placeholder", deps |-> << >>, listeners |-> << >>])],
         Tail(names))

initDataStore(st, data, sels) == initSelectors(initItems(st, data), sels)

\* a faulty depData: the values in the reverse of the declared order
RECURSIVE depData_reversed(_, _)
depData_reversed(st, deps) ==
  IF deps = << >> THEN << >>
  ELSE depData_reversed(st, Tail(deps)) \o <<st.store[Head(deps)].data>>

\* _deps.map((dep) => this.store[dep]._data): the TypeError of a missing dep
RECURSIVE depData(_, _)
depData(st, deps) ==
  IF deps = << >> THEN << >>
  ELSE <<st.store[Head(deps)].data>> \o depData(st, Tail(deps))

\* getSelector: [st, value]; st.err is set when it throws
getSelector(st, name) ==
  IF name \notin DOMAIN st.selectors THEN [st |-> Throw(st, "Error"), value |-> Undef]
  ELSE LET sel == st.selectors[name]
       IN IF \E i \in 1..Len(sel.deps) : sel.deps[i] \notin DOMAIN st.store
          THEN [st |-> Throw(st, "TypeError"), value |-> Undef]
          ELSE LET args == depData(st, sel.deps)
               IN [st |-> Emit(st, [e |-> "transform", sel |-> name, args |-> args]),
                   value |-> Apply(sel.transformer, args)]

\* a faulty get: an unknown name is created and read as undefined
get_lenient(st, name) ==
  IF HasPrefix(name) THEN getSelector(st, name)
  ELSE LET s1 == _initDataStoreItem(st, name, Undef)
       IN [st |-> s1, value |-> s1.store[name].data]

get(st, name) ==
  IF HasPrefix(name) THEN getSelector(st, name)
  ELSE IF name \notin DOMAIN st.store THEN [st |-> Throw(st, "Error"), value |-> Undef]
  ELSE [st |-> st, value |-> st.store[name].data]

\* a faulty remove: the tombstone is set and the list is left as it is
remove_keepList(st, h) == [st EXCEPT !.handles[h].removed = TRUE]

\* listener.remove() of addDataListener and of addSelectorListener
remove(st, h) ==
  LET hs == [st.handles EXCEPT ![h].removed = TRUE]
      target == st.handles[h].target
  IN IF st.handles[h].kind = "data"
     THEN [st EXCEPT !.handles = hs,
                     !.listeners[target] = Filter(@, hs)]
     ELSE [st EXCEPT !.handles = hs,
                     !.selectors[target].listeners = Filter(@, hs)]

(***************************************************************************)
(* update, and the callbacks it runs.  A callback (onChange) is one of     *)
(*   [op |-> "nop"]                        returns                         *)
(*   [op |-> "remove", h |-> k]            if (k) k.remove()               *)
(*   [op |-> "update", name, data]         dataStore.update(name, data)    *)
(*   [op |-> "throw"]                      throws                          *)
(*   [op |-> "setState", a, i]             an adapter's state setter       *)
(* forEach visits the elements the array held when forEach was called: the *)
(* loops below walk a snapshot, since the code only ever appends to a list *)
(* or replaces it by a new one.  d is the nesting depth of the update.     *)
(***************************************************************************)
RECURSIVE update(_, _, _, _)
RECURSIVE invoke(_, _, _, _)
RECURSIVE notifyData(_, _, _, _, _, _)
RECURSIVE notifySelectorListeners(_, _, _, _, _)
RECURSIVE notifySelectors(_, _, _, _)

\* onChange(...args) of listener h
invoke(st, h, args, d) ==
  LET s1 == Emit(st, [e |-> "call", h |-> h, args |-> args, d |-> d])
      cb == st.handles[h].onChange
  IN CASE cb.op = "remove" ->
            IF cb.h <= Len(s1.handles) /\ s1.handles[cb.h].held
            THEN remove(s1, cb.h) ELSE s1
       [] cb.op = "update" ->
            IF d >= MaxDepth THEN Throw(s1, "RangeError")
            ELSE update(s1, cb.name, cb.data, d + 1)
       [] cb.op = "throw" -> Throw(s1, "Thrown")
       [] OTHER -> s1

\* a faulty notifyData: onChange(prevData, data)
RECURSIVE notifyData_swapped(_, _, _, _, _, _)
notifyData_swapped(st, list, i, data, prevData, d) ==
  IF i > Len(list) THEN st
  ELSE LET s1 == invoke(st, list[i], <<prevData, data>>, d)
       IN IF s1.err # "none" THEN s1
          ELSE notifyData_swapped(s1, list, i + 1, data, prevData, d)

\* a faulty notifyData: what a listener throws is caught and the pass goes on
RECURSIVE notifyData_swallow(_, _, _, _, _, _)
notifyData_swallow(st, list, i, data, prevData, d) ==
  IF i > Len(list) THEN st
  ELSE LET s1 == invoke(st, list[i], <<data, prevData>>, d)
       IN notifyData_swallow([s1 EXCEPT !.err = "none"], list, i + 1, data, prevData, d)

\* this.listeners[name].forEach(({ onChange }) => { onChange(data, prevData); })
notifyData(st, list, i, data, prevData, d) ==
  IF i > Len(list) THEN st
  ELSE LET s1 == invoke(st, list[i], <<data, prevData>>, d)
       IN IF s1.err # "none" THEN s1
          ELSE notifyData(s1, list, i + 1, data, prevData, d)

\* selectorListeners.forEach(({ onChange }) => { onChange(this.getSelector(selectorName)); })
notifySelectorListeners(st, selectorName, list, i, d) ==
  IF i > Len(list) THEN st
  ELSE LET g == getSelector(st, selectorName)
       IN IF g.st.err # "none" THEN g.st
          ELSE LET s1 == invoke(g.st, list[i], <<g.value>>, d)
               IN IF s1.err # "none" THEN s1
                  ELSE notifySelectorListeners(s1, selectorName, list, i + 1, d)

\* depSelectors.forEach((selectorName) => ...)
notifySelectors(st, depSelectors, j, d) ==
  IF j > Len(depSelectors) THEN st
  ELSE IF depSelectors[j] \notin DOMAIN st.selectors THEN Throw(st, "TypeError")
  ELSE LET s1 == notifySelectorListeners(st, depSelectors[j],
                   st.selectors[depSelectors[j]].listeners, 1, d)
       IN IF s1.err # "none" THEN s1
          ELSE notifySelectors(s1, depSelectors, j + 1, d)

\* a faulty update: no comparison, every call notifies (the README's older listing)
update_always(st, name, data, d) ==
  LET s0 == Emit(_initDataStoreItem(st, name, Undef),
                 [e |-> "update", name |-> name, data |-> data, d |-> d])
      prevData == s0.store[name].data
      s1 == Emit([s0 EXCEPT !.store[name].data = data],
                 [e |-> "set", name |-> name, data |-> data, d |-> d])
      s2 == notifyData(s1, s1.listeners[name], 1, data, prevData, d)
  IN IF s2.err # "none" THEN s2
     ELSE LET s3 == notifySelectors(s2, s2.store[name].sels, 1, d)
          IN IF s3.err # "none" THEN s3
             ELSE Emit(s3, [e |-> "return", d |-> d])

\* a faulty update: the selector listeners are notified before the data listeners
update_selectorsFirst(st, name, data, d) ==
  LET s0 == Emit(_initDataStoreItem(st, name, Undef),
                 [e |-> "update", name |-> name, data |-> data, d |-> d])
      prevData == s0.store[name].data
  IN IF ~_compareValuesDiff(data, prevData) THEN Emit(s0, [e |-> "return", d |-> d])
     ELSE LET s1 == Emit([s0 EXCEPT !.store[name].data = data],
                         [e |-> "set", name |-> name, data |-> data, d |-> d])
              s2 == notifySelectors(s1, s1.store[name].sels, 1, d)
          IN IF s2.err # "none" THEN s2
             ELSE LET s3 == notifyData(s2, s2.listeners[name], 1, data, prevData, d)
                  IN IF s3.err # "none" THEN s3
                     ELSE Emit(s3, [e |-> "return", d |-> d])

\* a faulty update: a call made while another update is running is dropped
update_guarded(st, name, data, d) ==
  LET s0 == Emit(_initDataStoreItem(st, name, Undef),
                 [e |-> "update", name |-> name, data |-> data, d |-> d])
      prevData == s0.store[name].data
  IN IF d > 0 \/ ~_compareValuesDiff(data, prevData) THEN Emit(s0, [e |-> "return", d |-> d])
     ELSE LET s1 == Emit([s0 EXCEPT !.store[name].data = data],
                         [e |-> "set", name |-> name, data |-> data, d |-> d])
              s2 == notifyData(s1, s1.listeners[name], 1, data, prevData, d)
          IN IF s2.err # "none" THEN s2
             ELSE LET s3 == notifySelectors(s2, s2.store[name].sels, 1, d)
                  IN IF s3.err # "none" THEN s3
                     ELSE Emit(s3, [e |-> "return", d |-> d])

update(st, name, data, d) ==
  LET s0 == Emit(_initDataStoreItem(st, name, Undef),
                 [e |-> "update", name |-> name, data |-> data, d |-> d])
      prevData == s0.store[name].data
  IN IF ~_compareValuesDiff(data, prevData) THEN Emit(s0, [e |-> "return", d |-> d])
     ELSE LET s1 == Emit([s0 EXCEPT !.store[name].data = data],
                         [e |-> "set", name |-> name, data |-> data, d |-> d])
              s2 == notifyData(s1, s1.listeners[name], 1, data, prevData, d)
          IN IF s2.err # "none" THEN s2
             ELSE LET s3 == notifySelectors(s2, s2.store[name].sels, 1, d)
                  IN IF s3.err # "none" THEN s3
                     ELSE Emit(s3, [e |-> "return", d |-> d])

(***************************************************************************)
(* defineSelector, addSelectorListener, addDataListener                    *)
(***************************************************************************)
\* a faulty registerDeps: a dep that is not in the store is passed over
RECURSIVE registerDeps_lenient(_, _, _)
registerDeps_lenient(st, selectorName, deps) ==
  IF deps = << >> THEN st
  ELSE IF Head(deps) \notin DOMAIN st.store
  THEN registerDeps_lenient(st, selectorName, Tail(deps))
  ELSE LET sels == st.store[Head(deps)].sels
           s1 == IF \E i \in 1..Len(sels) : sels[i] = selectorName THEN st
                 ELSE [st EXCEPT !.store[Head(deps)].sels = Append(@, selectorName)]
       IN registerDeps_lenient(s1, selectorName, Tail(deps))

\* a faulty registerDeps: the selector is pushed without looking for it first
RECURSIVE registerDeps_noLookup(_, _, _)
registerDeps_noLookup(st, selectorName, deps) ==
  IF deps = << >> THEN st
  ELSE IF Head(deps) \notin DOMAIN st.store THEN Throw(st, "TypeError")
  ELSE registerDeps_noLookup([st EXCEPT !.store[Head(deps)].sels = Append(@, selectorName)],
                             selectorName, Tail(deps))

RECURSIVE registerDeps(_, _, _)
\* depNames.forEach((dep) => { ... storeItem._selectors.push(selectorName) ... })
registerDeps(st, selectorName, deps) ==
  IF deps = << >> THEN st
  ELSE IF Head(deps) \notin DOMAIN st.store THEN Throw(st, "TypeError")
  ELSE LET sels == st.store[Head(deps)].sels
           s1 == IF \E i \in 1..Len(sels) : sels[i] = selectorName THEN st
                 ELSE [st EXCEPT !.store[Head(deps)].sels = Append(@, selectorName)]
       IN registerDeps(s1, selectorName, Tail(deps))

\* a faulty defineSelector: a selector that is defined anew keeps its listeners
defineSelector_keepListeners(st, selectorName, depNames, transformer) ==
  IF TypeOf(selectorName) # "string" THEN Throw(st, "TypeError")
  ELSE LET name == Qualify(selectorName.s)
           deps == IF depNames.t = "array"
                   THEN [i \in 1..Len(depNames.e) |-> depNames.e[i].s]
                   ELSE <<depNames.s>>
           s1 == registerDeps(st, name, deps)
           kept == IF name \in DOMAIN st.selectors THEN st.selectors[name].listeners
                   ELSE << >>
       IN IF s1.err # "none" THEN s1
          ELSE [s1 EXCEPT !.selectors = Put(@, name,
                  [transformer |-> transformer, deps |-> deps, listeners |-> kept])]

\* selectorName and depNames are JavaScript values: the method tests their types
defineSelector(st, selectorName, depNames, transformer) ==
  IF TypeOf(selectorName) # "string" THEN Throw(st, "TypeError")
  ELSE LET name == Qualify(selectorName.s)
           deps == IF depNames.t = "array"
                   THEN [i \in 1..Len(depNames.e) |-> depNames.e[i].s]
                   ELSE <<depNames.s>>
           s1 == registerDeps(st, name, deps)
       IN IF s1.err # "none" THEN s1
          ELSE [s1 EXCEPT !.selectors = Put(@, name,
                  [transformer |-> transformer, deps |-> deps, listeners |-> << >>])]

NewHandle(kind, target, onChange) ==
  [kind |-> kind, target |-> target, onChange |-> onChange, removed |-> FALSE, held |-> FALSE]

\* return listener: the caller now holds the handle
Return(st, h) == IF st.err # "none" THEN st ELSE [st EXCEPT !.handles[h].held = TRUE]

addSelectorListener(st, selectorName, onChange, executeImmediately) ==
  LET name == Qualify(selectorName)
      h == Len(st.handles) + 1
  IN IF name \notin DOMAIN st.selectors THEN Throw(st, "TypeError")
     ELSE LET s1 == [st EXCEPT !.handles = Append(@, NewHandle("selector", name, onChange)),
                               !.selectors[name].listeners = Append(@, h)]
          IN IF ~executeImmediately THEN Return(s1, h)
             ELSE LET g == getSelector(s1, name)
                  IN IF g.st.err # "none" THEN g.st
                     ELSE Return(invoke(g.st, h, <<g.value>>, 0), h)

\* a faulty addDataListener: executeImmediately is ignored
addDataListener_deferred(st, targetName, onChange, executeImmediately) ==
  LET s0 == _initDataStoreItem(st, targetName, Undef)
      h == Len(s0.handles) + 1
  IN Return([s0 EXCEPT !.handles = Append(@, NewHandle("data", targetName, onChange)),
                       !.listeners[targetName] = Append(@, h)], h)

addDataListener(st, targetName, onChange, executeImmediately) ==
  LET s0 == _initDataStoreItem(st, targetName, Undef)
      h == Len(s0.handles) + 1
      s1 == [s0 EXCEPT !.handles = Append(@, NewHandle("data", targetName, onChange)),
                       !.listeners[targetName] = Append(@, h)]
  IN IF ~executeImmediately THEN Return(s1, h)
     ELSE Return(invoke(s1, h, <<s1.store[targetName].data>>, 0), h)

(***************************************************************************)
(* bindStateHook / bindState: the adapter and its mount and unmount        *)
(* functions.  adapters[a] = [kind, deps, listener]; listener[i] is the    *)
(* handle kept in the i-th entry's `listener` field, 0 for null.           *)
(***************************************************************************)
RECURSIVE readAll(_, _)
\* this.get(dataStoreName) for each bound name, in order
readAll(st, names) ==
  IF names = << >> THEN st
  ELSE LET g == get(st, Head(names))
       IN IF g.st.err # "none" THEN g.st ELSE readAll(g.st, Tail(names))

bindAdapter(st, kind, names) ==
  LET s1 == readAll(st, names)
  IN IF s1.err # "none" THEN s1
     ELSE [s1 EXCEPT !.adapters = Append(@,
             [kind |-> kind, deps |-> names, listener |-> [i \in 1..Len(names) |-> 0]])]

bindStateHook(st, deps) == bindAdapter(st, "hook", deps)
bindState(st, mapping) == bindAdapter(st, "class", mapping)

RECURSIVE onMount(_, _, _)
\* listeners.forEach((listener) => { listener.onMount(); })
onMount(st, a, i) ==
  IF i > Len(st.adapters[a].deps) THEN st
  ELSE LET name == st.adapters[a].deps[i]
           cb == [op |-> "setState", a |-> a, i |-> i]
           h == Len(st.handles) + 1
           s1 == IF HasPrefix(name) THEN addSelectorListener(st, name, cb, TRUE)
                 ELSE addDataListener(st, name, cb, TRUE)
       IN IF s1.err # "none" THEN s1
          ELSE onMount([s1 EXCEPT !.adapters[a].listener[i] = h], a, i + 1)

RECURSIVE onUnmount(_, _, _)
\* listeners.forEach((listener) => { listener.onUnmount(); })
onUnmount(st, a, i) ==
  IF i > Len(st.adapters[a].deps) THEN st
  ELSE LET h == st.adapters[a].listener[i]
       IN onUnmount(IF h # 0 THEN remove(st, h) ELSE st, a, i + 1)

(***************************************************************************)
(* The state machine: one action per public method.  A method works on the *)
(* state record of the current state, with an empty log; what it leaves in *)
(* the store stays there also when it throws.                              *)
(***************************************************************************)
Cur ==
  [store |-> store, listeners |-> listeners, selectors |-> selectors,
   handles |-> handles, adapters |-> adapters, log |-> << >>, err |-> "none"]

Commit(st) ==
  /\ store' = st.store
  /\ listeners' = st.listeners
  /\ selectors' = st.selectors
  /\ handles' = st.handles
  /\ adapters' = st.adapters

\* constructor()
Init ==
  /\ store = << >>
  /\ listeners = << >>
  /\ selectors = << >>
  /\ handles = << >>
  /\ adapters = << >>

InitDataStoreIn(Data, Sels) ==
  \E data \in Data, sels \in Sels : Commit(initDataStore(Cur, data, sels))

UpdateIn(Ns, Vs) ==
  \E name \in Ns, data \in Vs : Commit(update(Cur, name, data, 0))

GetIn(Ns) == \E name \in Ns : Commit(get(Cur, name).st)

GetSelectorIn(Ns) == \E name \in Ns : Commit(getSelector(Cur, name).st)

DefineSelectorIn(Ns, Deps, Trs) ==
  \E name \in Ns, deps \in Deps, tr \in Trs : Commit(defineSelector(Cur, name, deps, tr))

AddSelectorListenerIn(Ns, Cbs) ==
  \E name \in Ns, cb \in Cbs, imm \in BOOLEAN :
    /\ Len(handles) < MaxHandles
    /\ Commit(addSelectorListener(Cur, name, cb, imm))

AddDataListenerIn(Ns, Cbs) ==
  \E name \in Ns, cb \in Cbs, imm \in BOOLEAN :
    /\ Len(handles) < MaxHandles
    /\ Commit(addDataListener(Cur, name, cb, imm))

\* handle.remove(), called by the code that holds the handle
RemoveOp ==
  \E h \in 1..Len(handles) :
    /\ handles[h].held
    /\ Commit(remove(Cur, h))

BindStateHookIn(Deps) ==
  \E deps \in Deps :
    /\ Len(adapters) < MaxAdapters
    /\ Commit(bindStateHook(Cur, deps))

BindStateIn(Deps) ==
  \E deps \in Deps :
    /\ Len(adapters) < MaxAdapters
    /\ Commit(bindState(Cur, deps))

\* the adapter's mount function (initStateHook, didMount)
MountOp ==
  \E a \in 1..Len(adapters) :
    /\ Len(handles) + Len(adapters[a].deps) <= MaxHandles
    /\ Commit(onMount(Cur, a, 1))

\* the adapter's unmount function (clearStateHook, willUnmount)
UnmountOp == \E a \in 1..Len(adapters) : Commit(onUnmount(Cur, a, 1))

(***************************************************************************)
(* The inputs the actions draw from.                                       *)
(***************************************************************************)
X == <<"x">>
Y == <<"y">>
S == <<"s">>
T == <<"t">>
QS == <<SELECTOR_PREFIX, "s">>
QT == <<SELECTOR_PREFIX, "t">>
Abc == Str(<<"abc">>)

Names == {X, Y}
SelectorNames == {S, QS}
Values == {Null, Abc}
InitialData == {<< >>, <<<<X, Null>>>>, <<<<X, Undef>>, <<Y, Abc>>>>}
InitialSelectors == {<< >>, <<S>>, <<QS>>}
\* the selectorName argument of defineSelector: names, and a value that is no string
DefinedNames == {Str(n) : n \in SelectorNames} \cup {Num(7)}
\* its depNames argument: one name, or an array of names
DepNames == {Str(X), Arr(<<Str(X), Str(Y)>>), Arr(<<Str(Y), Str(X)>>)}
Transformers == {"format", "list"}
Nop == [op |-> "nop"]

(***************************************************************************)
(* Spec: values, one selector over two names, listeners that only return.  *)
(***************************************************************************)
InitDataStoreOp == InitDataStoreIn(InitialData, InitialSelectors)
UpdateOp == UpdateIn(Names, Values)
GetOp == GetIn(Names \cup {QS})
GetSelectorOp == GetSelectorIn(SelectorNames)
DefineSelectorOp == DefineSelectorIn(DefinedNames, DepNames, Transformers)
AddSelectorListenerOp == AddSelectorListenerIn(SelectorNames, {Nop})
AddDataListenerOp == AddDataListenerIn(Names, {Nop})

Next ==
  \/ InitDataStoreOp
  \/ UpdateOp
  \/ GetOp
  \/ GetSelectorOp
  \/ DefineSelectorOp
  \/ AddSelectorListenerOp
  \/ AddDataListenerOp
  \/ RemoveOp

Spec == Init /\ [][Next]_vars

(***************************************************************************)
(* SpecNotify: one name, two selectors over it, and listeners that remove  *)
(* a handle (their own or another) when they are notified.                 *)
(***************************************************************************)
Removers == {[op |-> "remove", h |-> 1], [op |-> "remove", h |-> 2]}

NotifyInit == InitDataStoreIn({<<<<X, Null>>>>}, {<<S>>})
NotifyUpdate == UpdateIn({X}, Values)
NotifyDefine == DefineSelectorIn({Str(S), Str(T)}, {Str(X)}, {"format"})
NotifyAddSelectorListener == AddSelectorListenerIn({S, T}, {Nop} \cup Removers)
NotifyAddDataListener == AddDataListenerIn({X}, {Nop} \cup Removers)

NextNotify ==
  \/ NotifyInit
  \/ NotifyUpdate
  \/ NotifyDefine
  \/ NotifyAddSelectorListener
  \/ NotifyAddDataListener
  \/ RemoveOp

SpecNotify == Init /\ [][NextNotify]_vars

(***************************************************************************)
(* SpecBind: the binding adapters over a value and a selector of it.       *)
(***************************************************************************)
BoundNames == {<<X>>, <<QS>>, <<X, QS>>}

BindInit == InitDataStoreIn({<<<<X, Null>>>>}, {<<S>>})
BindUpdate == UpdateIn({X}, Values)
BindDefine == DefineSelectorIn({Str(S)}, {Str(X)}, {"format"})
BindStateHookOp == BindStateHookIn(BoundNames)
BindStateOp == BindStateIn(BoundNames)

NextBind ==
  \/ BindInit
  \/ BindUpdate
  \/ BindDefine
  \/ BindStateHookOp
  \/ BindStateOp
  \/ MountOp
  \/ UnmountOp

SpecBind == Init /\ [][NextBind]_vars

(***************************************************************************)
(* SpecReenter: two names, a selector over the first, and listeners that   *)
(* call update themselves.  A call whose nesting would exceed MaxDepth is  *)
(* left out: the model follows the call stack that far and no further.     *)
(***************************************************************************)
WithinStack(st) == st.err # "RangeError"

Reenterers ==
  {[op |-> "update", name |-> X, data |-> Null],
   [op |-> "update", name |-> X, data |-> Abc],
   [op |-> "update", name |-> Y, data |-> Abc]}

ReenterInit == InitDataStoreIn({<<<<X, Null>>, <<Y, Null>>>>}, {<< >>})

ReenterDefine == DefineSelectorIn({Str(S)}, {Str(X)}, {"format"})

ReenterUpdate ==
  \E name \in Names, data \in Values :
    LET r == update(Cur, name, data, 0)
    IN WithinStack(r) /\ Commit(r)

ReenterAddDataListener ==
  \E name \in Names, cb \in {Nop} \cup Reenterers, imm \in BOOLEAN :
    LET r == addDataListener(Cur, name, cb, imm)
    IN Len(handles) < MaxHandles /\ WithinStack(r) /\ Commit(r)

ReenterAddSelectorListener ==
  \E cb \in {Nop} \cup Reenterers, imm \in BOOLEAN :
    LET r == addSelectorListener(Cur, S, cb, imm)
    IN Len(handles) < MaxHandles /\ WithinStack(r) /\ Commit(r)

NextReenter ==
  \/ ReenterInit
  \/ ReenterDefine
  \/ ReenterUpdate
  \/ ReenterAddDataListener
  \/ ReenterAddSelectorListener

SpecReenter == Init /\ [][NextReenter]_vars

(***************************************************************************)
(* SpecCompare: one name that is updated with values of every shape the    *)
(* comparator tells apart, a listener on it and a selector over it.        *)
(***************************************************************************)
One == Num(1)
Two == Num(2)
Empty == Obj(<< >>, << >>)
AB12 == Obj(<<"a", "b">>, <<One, Two>>)

Mappings ==
  {Empty,
   AB12,
   Obj(<<"a", "b">>, <<One, Num(3)>>),
   Obj(<<"a", "b">>, <<Two, Two>>),
   Obj(<<"b", "a">>, <<Two, One>>),
   Obj(<<"a">>, <<One>>),
   Obj(<<"a", "b">>, <<Empty, Two>>),
   Obj(<<"a", "b">>, <<Fn(1), Two>>),
   Obj(<<"a", "b">>, <<Arr(<<One>>), Two>>),
   Obj(<<"c", "d">>, <<Undef, Two>>)}

CompareValues ==
  Mappings \cup {Undef, Null, One, Abc, Fn(1), Arr(<<One, Undef>>), Arr(<<One, Null>>)}

CompareUpdate == UpdateIn({X}, CompareValues)
CompareDefine == DefineSelectorIn({Str(S)}, {Str(X)}, {"list"})
CompareAddDataListener == AddDataListenerIn({X}, {Nop})
CompareAddSelectorListener == AddSelectorListenerIn({S}, {Nop})

NextCompare ==
  \/ CompareUpdate
  \/ CompareDefine
  \/ CompareAddDataListener
  \/ CompareAddSelectorListener

SpecCompare == Init /\ [][NextCompare]_vars

(***************************************************************************)
(* SpecDefine: two names and a name that is never initialized, and two     *)
(* selectors that are defined and defined anew over them, also with a dep  *)
(* named twice and with a dep that does not exist.                         *)
(***************************************************************************)
Z == <<"z">>

DefineDeps ==
  {Str(X), Str(Y), Arr(<<Str(X), Str(X)>>), Arr(<<Str(Y), Str(Z)>>)}

DefineInit == InitDataStoreIn({<<<<X, Null>>, <<Y, Null>>>>}, {<< >>, <<S>>})
DefineUpdate == UpdateIn({X, Y}, Values)
DefineDefine == DefineSelectorIn({Str(S), Str(T)}, DefineDeps, {"list"})
DefineAddSelectorListener == AddSelectorListenerIn({S, T}, {Nop})

NextDefine ==
  \/ DefineInit
  \/ DefineUpdate
  \/ DefineDefine
  \/ DefineAddSelectorListener

SpecDefine == Init /\ [][NextDefine]_vars

(***************************************************************************)
(* SpecThrow: one name that is updated with strings, null and a function,  *)
(* a selector over it, and listeners that throw when they are notified.    *)
(***************************************************************************)
Thrower == [op |-> "throw"]
ThrowValues == {Null, Abc, Fn(1)}

ThrowInit == InitDataStoreIn({<<<<X, Null>>>>}, {<< >>})
ThrowDefine == DefineSelectorIn({Str(S)}, {Str(X)}, {"list"})
ThrowUpdate == UpdateIn({X}, ThrowValues)
ThrowAddDataListener == AddDataListenerIn({X}, {Nop, Thrower})
ThrowAddSelectorListener == AddSelectorListenerIn({S}, {Nop, Thrower})

NextThrow ==
  \/ ThrowInit
  \/ ThrowDefine
  \/ ThrowUpdate
  \/ ThrowAddDataListener
  \/ ThrowAddSelectorListener
  \/ RemoveOp

SpecThrow == Init /\ [][NextThrow]_vars

(***************************************************************************)
(* What a call did, read from the state before it and from its log.        *)
(***************************************************************************)
CallsOf(lg) == SelectSeq(lg, LAMBDA ev : ev.e = "call")

\* the callback invocations of a call, in order: which listener, which arguments
Invocations(lg) ==
  [i \in 1..Len(CallsOf(lg)) |-> [h |-> CallsOf(lg)[i].h, args |-> CallsOf(lg)[i].args]]

\* those of the listeners of one kind ("data" or "selector")
InvocationsOfKind(lg, kind) ==
  SelectSeq(Invocations(lg), LAMBDA c : handles[c.h].kind = kind)

\* how often listener h was invoked
Count(lg, h) == Len(SelectSeq(CallsOf(lg), LAMBDA ev : ev.h = h))

\* the value stored under name; a name update creates on the way holds undefined
StoredData(name) == IF name \in DOMAIN store THEN store[name].data ELSE Undef

\* the data listeners registered on name and not removed, in registration order
RegisteredData(name) ==
  SelectSeq([h \in 1..Len(handles) |-> h],
            LAMBDA h : /\ handles[h].kind = "data"
                       /\ handles[h].target = name
                       /\ ~handles[h].removed)

\* a selector's transformer applied to the stored values of its deps, in order
SelectorValue(n) ==
  Apply(selectors[n].transformer,
        [i \in 1..Len(selectors[n].deps) |-> store[selectors[n].deps[i]].data])

\* the call left the store, the selectors and the listeners as they were
Untouched(st) ==
  /\ st.store = store
  /\ st.listeners = listeners
  /\ st.selectors = selectors
  /\ st.handles = handles

AnyValue == Values \cup {Undef}

(***************************************************************************)
(* C1: an update that the comparator reports as a change invokes every     *)
(* data listener that is registered on the name and not removed when       *)
(* update is called exactly once, in registration order, each with the     *)
(* arguments (new value, previous stored value); a listener that removes   *)
(* itself or a sibling while it is notified changes nothing of this.       *)
(***************************************************************************)
C1_DataListenersOnceInOrder ==
  \A name \in Names, v \in AnyValue :
    LET r == update(Cur, name, v, 0)
        prev == StoredData(name)
        regd == RegisteredData(name)
    IN _compareValuesDiff(v, prev) =>
         InvocationsOfKind(r.log, "data")
           = [i \in 1..Len(regd) |-> [h |-> regd[i], args |-> <<v, prev>>]]

\* two listeners on x, the first removes the second when notified; x changes
C1_Witness ==
  /\ RegisteredData(X) = <<1, 2>>
  /\ handles[1].onChange = [op |-> "remove", h |-> 2]
  /\ store[X].data = Null
  /\ Invocations(update(Cur, X, Abc, 0).log)
       = <<[h |-> 1, args |-> <<Abc, Null>>], [h |-> 2, args |-> <<Abc, Null>>]>>

(***************************************************************************)
(* C2: an update whose value the comparator reports as not different from  *)
(* the stored one does not replace the stored value and invokes no         *)
(* listener, neither of the name nor of a selector that depends on it.     *)
(***************************************************************************)
C2_NoChangeNoNotification ==
  \A name \in Names, v \in AnyValue :
    LET r == update(Cur, name, v, 0)
    IN ~_compareValuesDiff(v, StoredData(name)) =>
         /\ r.err = "none"
         /\ r.store[name].data = StoredData(name)
         /\ name \in DOMAIN store => Untouched(r)
         /\ \A k \in 1..Len(r.log) : r.log[k].e \notin {"call", "set", "transform"}

\* x holds null, has a listener and a dependent selector with a listener
C2_Witness ==
  /\ X \in DOMAIN store
  /\ store[X].data = Null
  /\ Len(listeners[X]) = 1
  /\ \E k \in 1..Len(store[X].sels) :
       /\ store[X].sels[k] \in DOMAIN selectors
       /\ Len(selectors[store[X].sels[k]].listeners) = 1
  /\ Invocations(update(Cur, X, Null, 0).log) = << >>

(***************************************************************************)
(* C3: getSelector, and get, of a defined selector return the selector's   *)
(* current transformer applied to the values now stored under its deps, in *)
(* the declared order, and change nothing: with (u) => 'UUID-' + u over x, *)
(* 'UUID-null' while x is null and 'UUID-abc' once x is 'abc'.             *)
(***************************************************************************)
C3_SelectorComputedFromCurrentValues ==
  \A n \in DOMAIN selectors :
    LET g == getSelector(Cur, n)
        g2 == get(Cur, n)
    IN /\ g.st.err = "none" /\ g2.st.err = "none"
       /\ g.value = SelectorValue(n)
       /\ g2.value = g.value
       /\ Untouched(g.st) /\ Untouched(g2.st)
       /\ (selectors[n].transformer = "format" /\ selectors[n].deps = <<X>>) =>
            /\ store[X].data = Null => g.value = Str(<<"UUID-", "null">>)
            /\ store[X].data = Abc => g.value = Str(<<"UUID-", "abc">>)

\* a selector over (y, x) whose values differ returns them in that order
C3_Witness ==
  /\ QS \in DOMAIN selectors
  /\ selectors[QS].transformer = "list"
  /\ selectors[QS].deps = <<Y, X>>
  /\ store[Y].data = Abc /\ store[X].data = Null
  /\ getSelector(Cur, QS).value = Arr(<<Abc, Null>>)

(***************************************************************************)
(* C5: get of a raw name that was never initialized throws, and does not   *)
(* initialize it, so that a second get throws again; get of a name that    *)
(* was initialized with undefined returns undefined.                       *)
(***************************************************************************)
C5_GetOfUnknownNameThrows ==
  \A name \in Names \cup {<<"z">>} :
    LET g == get(Cur, name)
    IN /\ name \notin DOMAIN store =>
            /\ g.st.err = "Error"
            /\ Untouched(g.st)
            /\ get([g.st EXCEPT !.err = "none"], name).st.err = "Error"
       /\ (name \in DOMAIN store /\ store[name].data = Undef) =>
            /\ g.st.err = "none"
            /\ g.value = Undef

\* x was initialized with undefined, y never was
C5_Witness ==
  /\ X \in DOMAIN store
  /\ store[X].data = Undef
  /\ Y \notin DOMAIN store
  /\ get(Cur, X) = [st |-> Cur, value |-> Undef]
  /\ get(Cur, Y).st.err = "Error"

(***************************************************************************)
(* C4: when a listener removes a handle of the list that is being notified *)
(* (its own or a sibling's), every handle of that list is still invoked    *)
(* exactly once in that pass; and a handle whose remove() has returned is  *)
(* invoked by no update that starts afterwards.  For data listeners and    *)
(* for selector listeners.                                                 *)
(***************************************************************************)
\* the selectors whose listeners an update of name notifies
NotifiedSelectors(name) ==
  IF name \in DOMAIN store
  THEN {store[name].sels[k] : k \in 1..Len(store[name].sels)} \cap DOMAIN selectors
  ELSE {}

\* the handles in the lists an update of name notifies
Notified(name) ==
  {h \in 1..Len(handles) :
     \/ \E i \in 1..Len(RegisteredData(name)) : RegisteredData(name)[i] = h
     \/ \E q \in NotifiedSelectors(name) :
          \E i \in 1..Len(selectors[q].listeners) : selectors[q].listeners[i] = h}

SameList(g, h) ==
  handles[g].kind = handles[h].kind /\ handles[g].target = handles[h].target

\* the listeners that remove h when they are notified
RemoversOf(name, h) ==
  {g \in Notified(name) : handles[g].onChange = [op |-> "remove", h |-> h]}

\* C4: a removal during a pass neither skips nor repeats a handle of the list,
\* and no later update invokes a removed handle
C4_RemovalDuringAndAfterNotification ==
  \A name \in Names, v \in AnyValue :
    LET r == update(Cur, name, v, 0)
    IN /\ _compareValuesDiff(v, StoredData(name)) =>
            \A h \in Notified(name) :
              /\ Count(r.log, h) <= 1
              /\ (\A g \in RemoversOf(name, h) : SameList(g, h)) => Count(r.log, h) = 1
       /\ \A h \in 1..Len(handles) : handles[h].removed => Count(r.log, h) = 0

\* the first of two listeners of a selector removes itself when notified: both
\* are invoked in that pass, and the next update invokes only the second
C4_Witness ==
  /\ QS \in NotifiedSelectors(X)
  /\ selectors[QS].listeners = <<1, 2>>
  /\ handles[1].onChange = [op |-> "remove", h |-> 1]
  /\ store[X].data = Null
  /\ LET r == update(Cur, X, Abc, 0)
         r2 == update([r EXCEPT !.log = << >>], X, Null, 0)
     IN /\ Count(r.log, 1) = 1 /\ Count(r.log, 2) = 1
        /\ r.handles[1].removed
        /\ [i \in 1..Len(CallsOf(r2.log)) |-> CallsOf(r2.log)[i].h] = <<2>>

(***************************************************************************)
(* C6: addDataListener and addSelectorListener with executeImmediately     *)
(* invoke the callback exactly once before they return, with the value     *)
(* stored (the selector value computed) at that moment, and without it do  *)
(* not invoke the callback.                                                *)
(***************************************************************************)
C6_ExecuteImmediately ==
  /\ \A name \in Names, imm \in BOOLEAN :
       Invocations(addDataListener(Cur, name, Nop, imm).log)
         = IF imm THEN <<[h |-> Len(handles) + 1, args |-> <<StoredData(name)>>]>>
           ELSE << >>
  /\ \A name \in SelectorNames, imm \in BOOLEAN :
       Qualify(name) \in DOMAIN selectors =>
         Invocations(addSelectorListener(Cur, name, Nop, imm).log)
           = IF imm
             THEN <<[h |-> Len(handles) + 1, args |-> <<SelectorValue(Qualify(name))>>]>>
             ELSE << >>

\* x holds 'abc' and the selector formats it
C6_Witness ==
  /\ X \in DOMAIN store
  /\ store[X].data = Abc
  /\ QS \in DOMAIN selectors
  /\ selectors[QS].transformer = "format"
  /\ selectors[QS].deps = <<X>>
  /\ Len(handles) = 1
  /\ Invocations(addDataListener(Cur, X, Nop, TRUE).log) = <<[h |-> 2, args |-> <<Abc>>]>>
  /\ Invocations(addSelectorListener(Cur, S, Nop, TRUE).log)
       = <<[h |-> 2, args |-> <<Str(<<"UUID-", "abc">>)>>]>>

(***************************************************************************)
(* C7: defineSelector throws when the selector name is not a string or a   *)
(* dep is not an initialized value, and then creates or replaces no        *)
(* selector entry; so every dep of every defined selector is an            *)
(* initialized value and computing a defined selector never fails.         *)
(***************************************************************************)
\* the names an argument depNames stands for
DepSet(depNames) ==
  IF depNames.t = "array" THEN {depNames.e[i].s : i \in 1..Len(depNames.e)}
  ELSE {depNames.s}

\* C7: defineSelector throws on a non-string name and on an unknown dep, and
\* then leaves the selector as it was; every defined selector can be computed
C7_DefineSelectorRejectsUnknownDeps ==
  /\ \A name \in DefinedNames, deps \in DepNames, tr \in Transformers :
       LET r == defineSelector(Cur, name, deps, tr)
       IN (TypeOf(name) # "string" \/ \E dep \in DepSet(deps) : dep \notin DOMAIN store) =>
            /\ r.err # "none"
            /\ r.selectors = selectors
  /\ \A n \in DOMAIN selectors :
       /\ \A i \in 1..Len(selectors[n].deps) : selectors[n].deps[i] \in DOMAIN store
       /\ getSelector(Cur, n).st.err = "none"

\* s is defined over x; defining it anew over (x, y), y unknown, fails and keeps it
C7_Witness ==
  /\ X \in DOMAIN store
  /\ Y \notin DOMAIN store
  /\ QS \in DOMAIN selectors
  /\ selectors[QS].transformer = "format"
  /\ LET r == defineSelector(Cur, Str(S), Arr(<<Str(X), Str(Y)>>), "list")
     IN r.err = "TypeError" /\ r.selectors = selectors
  /\ defineSelector(Cur, Num(7), Str(X), "list").err = "TypeError"

(***************************************************************************)
(* C8: every public method that takes a selector name (the selectors list  *)
(* of initDataStore, defineSelector, addSelectorListener, getSelector) has *)
(* the same effect and result for the bare name as for the name with the   *)
(* 'selector::' prefix.                                                    *)
(***************************************************************************)
C8_BareNameSameAsPrefixed ==
  /\ initDataStore(Cur, << >>, <<S>>) = initDataStore(Cur, << >>, <<QS>>)
  /\ \A deps \in DepNames, tr \in Transformers :
       defineSelector(Cur, Str(S), deps, tr) = defineSelector(Cur, Str(QS), deps, tr)
  /\ \A imm \in BOOLEAN :
       addSelectorListener(Cur, S, Nop, imm) = addSelectorListener(Cur, QS, Nop, imm)
  /\ getSelector(Cur, S) = getSelector(Cur, QS)

(***************************************************************************)
(* C9: after the unmount function of an adapter has run, whatever mount    *)
(* and unmount calls came before, no update invokes a callback that the    *)
(* adapter subscribed.                                                     *)
(***************************************************************************)
\* the listeners adapter a subscribed that an update of x in st invokes
AdapterCallbacksInvoked(st, a) ==
  {h \in 1..Len(st.handles) :
     /\ st.handles[h].onChange.op = "setState"
     /\ st.handles[h].onChange.a = a
     /\ \E v \in Values : Count(update(st, X, v, 0).log, h) > 0}

\* C9: once unmount has run, an update of a bound name invokes no callback
\* of that adapter
C9_UnmountRemovesEveryListener ==
  \A a \in 1..Len(adapters) : AdapterCallbacksInvoked(onUnmount(Cur, a, 1), a) = {}

(***************************************************************************)
(* C10: within an update that changes the value, the stored value is       *)
(* replaced before any listener runs, every data listener of the name is   *)
(* invoked before any selector listener, the dependent selectors are       *)
(* processed in the order in which they were first registered on the name, *)
(* and all of it happens before update returns.                            *)
(***************************************************************************)
\* the place of selector q in the dependent list of name
Place(name, q) == CHOOSE k \in 1..Len(store[name].sels) : store[name].sels[k] = q

\* C10: value stored first, then the data listeners, then the selector
\* listeners in the order of registration on the name, all before the return
C10_UpdateOrder ==
  \A name \in Names, v \in AnyValue :
    LET r == update(Cur, name, v, 0)
        lg == r.log
        calls == {k \in 1..Len(lg) : lg[k].e = "call"}
    IN _compareValuesDiff(v, StoredData(name)) =>
         /\ r.err = "none"
         /\ r.store[name].data = v
         /\ lg[1] = [e |-> "update", name |-> name, data |-> v, d |-> 0]
         /\ lg[2] = [e |-> "set", name |-> name, data |-> v, d |-> 0]
         /\ lg[Len(lg)] = [e |-> "return", d |-> 0]
         /\ \A k \in calls : 2 < k /\ k < Len(lg)
         /\ \A i, j \in calls :
              (i < j /\ handles[lg[i].h].kind = "selector") =>
                /\ handles[lg[j].h].kind = "selector"
                /\ handles[lg[i].h].target \in NotifiedSelectors(name)
                /\ handles[lg[j].h].target \in NotifiedSelectors(name)
                /\ Place(name, handles[lg[i].h].target) <= Place(name, handles[lg[j].h].target)

\* t was registered on x before s; the listener of s was added before that of t
C10_Witness ==
  /\ X \in DOMAIN store
  /\ store[X].sels = <<QT, QS>>
  /\ store[X].data = Null
  /\ selectors[QS].listeners = <<1>>
  /\ selectors[QT].listeners = <<2>>
  /\ Invocations(update(Cur, X, Abc, 0).log)
       = <<[h |-> 2, args |-> <<Str(<<"UUID-", "abc">>)>>],
           [h |-> 1, args |-> <<Str(<<"UUID-", "abc">>)>>]>>

(***************************************************************************)
(* C11: during an update that changes the value, the transformer of every  *)
(* selector that depends on the name is invoked exactly once, and every    *)
(* listener of that selector receives the value of that one invocation,    *)
(* however many listeners the selector has.                                *)
(***************************************************************************)
\* the invocations of the transformer of selector q in a log
TransformsOf(lg, q) == SelectSeq(lg, LAMBDA ev : ev.e = "transform" /\ ev.sel = q)

C11_SelectorRecomputedOnce ==
  \A name \in Names, v \in AnyValue :
    LET r == update(Cur, name, v, 0)
    IN _compareValuesDiff(v, StoredData(name)) =>
         \A q \in NotifiedSelectors(name) :
           /\ Len(TransformsOf(r.log, q)) = 1
           /\ \A k \in 1..Len(r.log) :
                (/\ r.log[k].e = "call"
                 /\ handles[r.log[k].h].kind = "selector"
                 /\ handles[r.log[k].h].target = q) =>
                  r.log[k].args
                    = <<Apply(selectors[q].transformer, TransformsOf(r.log, q)[1].args)>>

(***************************************************************************)
(* C12: when a listener that update(n, v) invokes calls update(m, w)       *)
(* itself and that inner update changes the value, the inner update has    *)
(* stored w, invoked every data listener of m and every listener of the    *)
(* selectors that depend on m, and returned, before the outer call invokes *)
(* another listener; no part of it is left for later.                      *)
(***************************************************************************)
\* the value stored under name when event k of the log happens
ValueAt(lg, k, name) ==
  LET sets == {i \in 1..(k - 1) : lg[i].e = "set" /\ lg[i].name = name}
  IN IF sets = {} THEN StoredData(name)
     ELSE lg[CHOOSE i \in sets : \A j \in sets : j <= i].data

\* the invocations of a listener whose callback calls update, the stack allowing
Reentries(lg) ==
  {k \in 1..Len(lg) : /\ lg[k].e = "call"
                      /\ handles[lg[k].h].onChange.op = "update"
                      /\ lg[k].d < MaxDepth}

\* the update that invocation k makes changes the value
Effective(lg, k) ==
  LET cb == handles[lg[k].h].onChange
  IN _compareValuesDiff(cb.data, ValueAt(lg, k, cb.name))

\* where the update that invocation k makes returns; 0 if it does not
InnerEnd(lg, k) ==
  LET rets == {i \in (k + 1)..Len(lg) : lg[i].e = "return" /\ lg[i].d = lg[k].d + 1}
  IN IF rets = {} THEN 0 ELSE CHOOSE i \in rets : \A j \in rets : i <= j

\* the selector listeners an update of name notifies
SelectorListenersOf(name) ==
  {h \in 1..Len(handles) :
     \E q \in NotifiedSelectors(name) :
       \E i \in 1..Len(selectors[q].listeners) : selectors[q].listeners[i] = h}

\* the whole propagation of the update that invocation k makes is in the log
Completed(lg, k) ==
  LET cb == handles[lg[k].h].onChange
      d == lg[k].d + 1
      prev == ValueAt(lg, k, cb.name)
      end == InnerEnd(lg, k)
      regd == RegisteredData(cb.name)
  IN /\ end # 0
     /\ lg[k + 1] = [e |-> "update", name |-> cb.name, data |-> cb.data, d |-> d]
     /\ lg[k + 2] = [e |-> "set", name |-> cb.name, data |-> cb.data, d |-> d]
     /\ \A n \in 1..Len(regd) :
          \E i \in (k + 3)..(end - 1) :
            lg[i] = [e |-> "call", h |-> regd[n], args |-> <<cb.data, prev>>, d |-> d]
     /\ \A h \in SelectorListenersOf(cb.name) :
          \E i \in (k + 3)..(end - 1) : lg[i].e = "call" /\ lg[i].h = h /\ lg[i].d = d

C12_InnerUpdateCompletesFirst ==
  \A name \in Names, v \in Values :
    LET r == update(Cur, name, v, 0)
        lg == r.log
    IN \A k \in Reentries(lg) :
         Effective(lg, k) =>
           /\ r.err = "none" => Completed(lg, k)
           /\ \A j \in (k + 1)..Len(lg) :
                (lg[j].e = "call" /\ lg[j].d <= lg[k].d) =>
                  Completed(lg, k) /\ InnerEnd(lg, k) < j

\* x has two listeners, the first sets y, which has none of its own here: the
\* first listener is invoked, y is set, and only then the second is invoked
C12_Witness ==
  /\ X \in DOMAIN store /\ Y \in DOMAIN store
  /\ store[X].data = Null /\ store[Y].data = Null
  /\ RegisteredData(X) = <<1, 2>>
  /\ handles[1].onChange = [op |-> "update", name |-> Y, data |-> Abc]
  /\ handles[2].onChange = Nop
  /\ LET lg == update(Cur, X, Abc, 0).log
     IN /\ Reentries(lg) = {3}
        /\ Effective(lg, 3)
        /\ InnerEnd(lg, 3) = 6
        /\ lg[7] = [e |-> "call", h |-> 2, args |-> <<Abc, Null>>, d |-> 0]

(***************************************************************************)
(* C20: every invocation of a data listener passes as new value the value  *)
(* that is stored under the name at that moment, also when a listener of   *)
(* the name has called update on it in the same pass; so the last new      *)
(* value a listener received is the value stored when the outermost update *)
(* returns.                                                                *)
(***************************************************************************)
C20_NewValueIsStoredValue ==
  \A name \in Names, v \in Values :
    LET r == update(Cur, name, v, 0)
        lg == r.log
        dataCalls == {k \in 1..Len(lg) : lg[k].e = "call" /\ handles[lg[k].h].kind = "data"}
    IN r.err = "none" =>
         \A k \in dataCalls :
           /\ lg[k].args[1] = ValueAt(lg, k, handles[lg[k].h].target)
           /\ (\A j \in dataCalls : lg[j].h = lg[k].h => j <= k) =>
                lg[k].args[1] = r.store[handles[lg[k].h].target].data

(***************************************************************************)
(* C13: when update is called with a plain mapping v while a plain mapping *)
(* of as many keys is stored, only the first enumerated key of v decides:  *)
(* if its values in v and in the stored mapping are neither functions nor  *)
(* plain mappings and serialize equally, the update is a no-op (the stored *)
(* value is kept, no listener is invoked) even when other keys differ; if  *)
(* one of the two is a function or a plain mapping, the update counts as a *)
(* change even when the two mappings are identical.                        *)
(***************************************************************************)
\* a function or a plain mapping
FunctionOrMapping(v) == v.t \in {"function", "object"}

\* the call stored its argument and notified
Changed(r) == \E k \in 1..Len(r.log) : r.log[k].e = "set"

C13_FirstKeyDecides ==
  \A v \in Mappings :
    LET b == StoredData(X)
        r == update(Cur, X, v, 0)
    IN (b.t = "object" /\ Len(b.k) = Len(v.k) /\ Len(v.k) > 0) =>
         LET valueV == Prop(v, v.k[1])
             valueB == Prop(b, v.k[1])
         IN /\ (/\ ~FunctionOrMapping(valueV)
                /\ ~FunctionOrMapping(valueB)
                /\ Stringify(valueV) = Stringify(valueB)) =>
                 /\ ~Changed(r)
                 /\ Untouched(r)
                 /\ Invocations(r.log) = << >>
            /\ (FunctionOrMapping(valueV) \/ FunctionOrMapping(valueB)) =>
                 /\ Changed(r)
                 /\ r.store[X].data = v
                 /\ \A h \in Notified(X) : Count(r.log, h) = 1

\* {a: 1, b: 2} is stored and x has a listener: {a: 1, b: 3} is no change, and
\* {a: {}, b: 2} written twice is a change both times
C13_Witness ==
  /\ X \in DOMAIN store
  /\ store[X].data = AB12
  /\ RegisteredData(X) # << >>
  /\ ~Changed(update(Cur, X, Obj(<<"a", "b">>, <<One, Num(3)>>), 0))
  /\ LET nested == Obj(<<"a", "b">>, <<Empty, Two>>)
         r == update(Cur, X, nested, 0)
         r2 == update([r EXCEPT !.log = << >>], X, nested, 0)
     IN /\ r.store[X].data = nested
        /\ Changed(r2)
        /\ Count(r2.log, RegisteredData(X)[1]) = 1

(***************************************************************************)
(* C14: the comparator's result for (newValue, oldValue) is that of the    *)
(* first rule of the chain that applies: (1) both plain mappings: the      *)
(* first-key rule; (2) typeof differs: different; (3) both functions:      *)
(* different; (4) otherwise different exactly if the JSON serializations   *)
(* differ, so that undefined against undefined and two arrays with the     *)
(* same serialization are not different.  One rule decides every pair.     *)
(***************************************************************************)
\* the rules of the chain that apply to a pair
RulesFor(a, b) ==
  (IF a.t = "object" /\ b.t = "object" THEN {1} ELSE {})
    \cup (IF TypeOf(a) # TypeOf(b) THEN {2} ELSE {})
    \cup (IF a.t = "function" /\ b.t = "function" THEN {3} ELSE {})
    \cup {4}

\* the first-key rule for two plain mappings
FirstKeyRule(a, b) ==
  IF Len(a.k) # Len(b.k) THEN TRUE
  ELSE IF a.k = << >> THEN FALSE
  ELSE \/ FunctionOrMapping(Prop(a, a.k[1]))
       \/ FunctionOrMapping(Prop(b, a.k[1]))
       \/ Stringify(Prop(a, a.k[1])) # Stringify(Prop(b, a.k[1]))

\* what rule i says of a pair
RuleResult(i, a, b) ==
  CASE i = 1 -> FirstKeyRule(a, b)
    [] i = 2 -> TRUE
    [] i = 3 -> TRUE
    [] OTHER -> Stringify(a) # Stringify(b)

C14_FirstMatchingRuleDecides ==
  \A v \in CompareValues :
    LET b == StoredData(X)
        first == CHOOSE i \in RulesFor(v, b) : \A j \in RulesFor(v, b) : i <= j
        r == update(Cur, X, v, 0)
    IN /\ compareCase(v, b) = first
       /\ _compareValuesDiff(v, b) = RuleResult(first, v, b)
       /\ Changed(r) = RuleResult(first, v, b)
       /\ (v = Undef /\ b = Undef) => ~Changed(r)
       /\ (v.t = "array" /\ b.t = "array" /\ Stringify(v) = Stringify(b)) => ~Changed(r)
       /\ (v.t = "function" /\ b.t = "function") => Changed(r)

\* [1, null] is stored: [1, undefined] serializes equally and is no change, a
\* function is; and a function written over a function is a change again
C14_Witness ==
  /\ X \in DOMAIN store
  /\ store[X].data = Arr(<<One, Null>>)
  /\ ~Changed(update(Cur, X, Arr(<<One, Undef>>), 0))
  /\ LET r == update(Cur, X, Fn(1), 0)
     IN /\ Changed(r)
        /\ Changed(update([r EXCEPT !.log = << >>], X, Fn(1), 0))

(***************************************************************************)
(* C15: defineSelector on a name that has a selector entry (a placeholder  *)
(* of initDataStore or an earlier definition) replaces the whole entry and *)
(* its listener list is empty afterwards: no later update invokes the      *)
(* listeners subscribed before, and remove() on their handles leaves the   *)
(* listeners subscribed afterwards in place.  initDataStore that lists a   *)
(* defined selector resets it to a placeholder without deps and listeners. *)
(***************************************************************************)
\* the handles in a list
Members(list) == {list[i] : i \in 1..Len(list)}

\* no update of x in st invokes handle h
NeverInvoked(st, h) ==
  \A v \in AnyValue : Count(update([st EXCEPT !.log = << >>], X, v, 0).log, h) = 0

\* the entry of q was replaced in st: its old listeners are gone for good
Replaced(st, q) ==
  /\ st.selectors[q].listeners = << >>
  /\ \A h \in Members(selectors[q].listeners) :
       /\ NeverInvoked(st, h)
       /\ LET s2 == addSelectorListener(st, q, Nop, FALSE)
              new == Len(st.handles) + 1
              s3 == remove(s2, h)
          IN /\ s3.selectors[q].listeners = <<new>>
             /\ q \in Members(st.store[X].sels) =>
                  \E v \in Values : Count(update(s3, X, v, 0).log, new) = 1

C15_RedefinitionDropsListeners ==
  /\ \A q \in DOMAIN selectors :
       LET r == defineSelector(Cur, Str(q), Str(X), "format")
           i == initDataStore(Cur, << >>, <<q>>)
       IN /\ r.err = "none" =>
               /\ r.selectors[q].transformer = "format"
               /\ r.selectors[q].deps = <<X>>
               /\ Replaced(r, q)
          /\ i.selectors[q].transformer = "placeholder"
          /\ i.selectors[q].deps = << >>
          /\ Replaced(i, q)
  /\ \A h \in 1..Len(handles) :
       (handles[h].kind = "selector"
          /\ h \notin Members(selectors[handles[h].target].listeners)) =>
         /\ NeverInvoked(Cur, h)
         /\ remove(Cur, h).selectors[handles[h].target].listeners
              = selectors[handles[h].target].listeners

\* s was defined anew after listener 1 had subscribed, then listener 2 subscribed:
\* an update of x invokes 2 only, and removing 1 leaves 2 in the list
C15_Witness ==
  /\ QS \in NotifiedSelectors(X)
  /\ Len(handles) = 2
  /\ handles[1].kind = "selector" /\ handles[1].target = QS /\ ~handles[1].removed
  /\ selectors[QS].listeners = <<2>>
  /\ handles[2].onChange = Nop
  /\ store[X].data = Null
  /\ Invocations(update(Cur, X, Abc, 0).log)
       = <<[h |-> 2, args |-> <<Str(<<"UUID-", "abc">>)>>]>>
  /\ remove(Cur, 1).selectors[QS].listeners = <<2>>
  /\ Replaced(defineSelector(Cur, Str(S), Str(X), "format"), QS)

(***************************************************************************)
(* C17: in every reachable state every defined selector s is exactly once  *)
(* in the dependent list of every name d among its deps: no reference is   *)
(* missing and none is there twice, also after s was defined repeatedly or *)
(* with deps that name d more than once.                                   *)
(***************************************************************************)
\* how often selector q is in the dependent list of name d in st
Occurrences(st, d, q) ==
  Cardinality({k \in 1..Len(st.store[d].sels) : st.store[d].sels[k] = q})

\* the dependent lists of st hold every defined selector once for each of its deps
BackReferenced(st) ==
  \A q \in DOMAIN st.selectors :
    \A d \in Members(st.selectors[q].deps) :
      d \in DOMAIN st.store /\ Occurrences(st, d, q) = 1

C17_DepsRegisteredOnce ==
  /\ BackReferenced(Cur)
  /\ \A name \in {Str(S), Str(T)}, deps \in DefineDeps :
       LET r == defineSelector(Cur, name, deps, "list")
           r2 == defineSelector([r EXCEPT !.err = "none"], name, deps, "list")
       IN BackReferenced(r) /\ BackReferenced(r2)

\* s was defined over (x, x) and is once in the list of x; defining it again
\* the same way leaves it there once
C17_Witness ==
  /\ QS \in DOMAIN selectors
  /\ selectors[QS].deps = <<X, X>>
  /\ Occurrences(Cur, X, QS) = 1
  /\ Occurrences(defineSelector(Cur, Str(S), Arr(<<Str(X), Str(X)>>), "list"), X, QS) = 1

(***************************************************************************)
(* C19: in every reachable state, also after calls of defineSelector that  *)
(* failed, every selector name in the dependent list of a value is a key   *)
(* of the selector table; a defineSelector that fails leaves the store as  *)
(* it was, and update never fails looking up a dependent selector.         *)
(***************************************************************************)
C19_DependentsAreDefined ==
  /\ \A d \in DOMAIN store : Members(store[d].sels) \subseteq DOMAIN selectors
  /\ \A name \in {Str(S), Str(T)}, deps \in DefineDeps :
       LET r == defineSelector(Cur, name, deps, "list")
       IN r.err # "none" => Untouched(r)
  /\ \A d \in {X, Y}, v \in Values : update(Cur, d, v, 0).err = "none"

(***************************************************************************)
(* C18: initializing a name that exists is a no-op: initDataStore changes  *)
(* neither the stored value nor the dependent list nor the listener list   *)
(* of a name that is present, and invokes no listener; also when the name  *)
(* was created with the value undefined by an update or an addDataListener *)
(* before, whose initial value in initDataStore is then ignored.           *)
(***************************************************************************)
\* initDataStore, run in st, leaves every name of st as it is and calls nothing
KeepsPresentNames(st, data, sels) ==
  LET r == initDataStore([st EXCEPT !.log = << >>], data, sels)
  IN /\ r.err = "none"
     /\ \A name \in DOMAIN st.store :
          /\ r.store[name] = st.store[name]
          /\ r.listeners[name] = st.listeners[name]
     /\ r.handles = st.handles
     /\ Invocations(r.log) = << >>

\* initial values that differ from whatever is stored
Reinitial == InitialData \cup {<<<<X, Abc>>, <<Y, Null>>>>}

C18_InitOfPresentNameIsNoOp ==
  \A data \in Reinitial, sels \in InitialSelectors :
    /\ KeepsPresentNames(Cur, data, sels)
    /\ \A name \in Names \ DOMAIN store :
         LET u == update(Cur, name, Undef, 0)
             a == addDataListener(Cur, name, Nop, FALSE)
         IN /\ u.store[name].data = Undef /\ KeepsPresentNames(u, data, sels)
            /\ a.store[name].data = Undef /\ KeepsPresentNames(a, data, sels)

\* y was created by addDataListener and holds undefined, x holds 'abc' and has a
\* dependent selector: initDataStore({x: undefined, y: 'abc'}) changes neither
C18_Witness ==
  /\ X \in DOMAIN store /\ Y \in DOMAIN store
  /\ store[X].data = Abc
  /\ store[X].sels # << >>
  /\ store[Y].data = Undef
  /\ Len(listeners[Y]) = 1
  /\ LET r == initDataStore(Cur, <<<<X, Undef>>, <<Y, Abc>>>>, << >>)
     IN r.store = store /\ r.listeners = listeners

(***************************************************************************)
(* C16: after a selector was defined anew with deps that no longer hold    *)
(* the value d, the selector stays in the dependent list of d for good:    *)
(* every later update of d that changes its value still invokes the        *)
(* listeners the selector has then, with the selector's current            *)
(* transformer applied to the current values of its new deps.              *)
(***************************************************************************)
\* the update of d with v in st invokes listener h of selector q once, with the
\* value of q in the state it leaves, and q stays a dependent of d
StaleNotified(st, d, v, q, h) ==
  LET u == update([st EXCEPT !.log = << >>], d, v, 0)
      calls == SelectSeq(CallsOf(u.log), LAMBDA ev : ev.h = h)
  IN /\ q \in Members(u.store[d].sels)
     /\ Len(calls) = 1
     /\ calls[1].args
          = <<Apply(st.selectors[q].transformer, depData(u, st.selectors[q].deps))>>

C16_StaleDependentStillNotified ==
  /\ \A q \in DOMAIN selectors, d \in DOMAIN store :
       (q \in Members(store[d].sels) /\ d \notin Members(selectors[q].deps)) =>
         \A v \in Values, h \in Members(selectors[q].listeners) :
           _compareValuesDiff(v, store[d].data) => StaleNotified(Cur, d, v, q, h)
  /\ \A q \in DOMAIN selectors, d \in DOMAIN store, deps \in DefineDeps :
       (d \in Members(selectors[q].deps) /\ d \notin DepSet(deps)) =>
         LET r == defineSelector(Cur, Str(q), deps, "list")
             s2 == addSelectorListener(r, q, Nop, FALSE)
         IN r.err = "none" =>
              \A v \in Values :
                _compareValuesDiff(v, store[d].data) =>
                  StaleNotified(s2, d, v, q, Len(handles) + 1)

(***************************************************************************)
(* C21: when a listener throws during an update that changes the value,    *)
(* the error reaches the caller of update, the value is stored already,    *)
(* and neither the listeners after the throwing one nor (for a data        *)
(* listener) the listeners of the dependent selectors are invoked.  The    *)
(* same update made again is a no-op, so that those listeners never learn  *)
(* of the value, exactly when the comparator reports the value as not      *)
(* different from itself; it does report a function as different from      *)
(* itself, and then the pass runs and throws again.                        *)
(***************************************************************************)
RECURSIVE SelectorPass(_, _)
\* the listeners of the selectors of a dependent list, in the order of the pass
SelectorPass(sels, j) ==
  IF j > Len(sels) THEN << >>
  ELSE (IF sels[j] \in DOMAIN selectors THEN selectors[sels[j]].listeners ELSE << >>)
       \o SelectorPass(sels, j + 1)

\* the listeners an update of name notifies, in the order in which it does
PassOrder(name) == RegisteredData(name) \o SelectorPass(store[name].sels, 1)

\* the first listener of the pass that throws; 0 if none does
FirstThrower(name) ==
  LET ts == {i \in 1..Len(PassOrder(name)) : handles[PassOrder(name)[i]].onChange = Thrower}
  IN IF ts = {} THEN 0 ELSE CHOOSE i \in ts : \A j \in ts : i <= j

\* the listeners that were invoked, in order
Invoked(lg) == [i \in 1..Len(CallsOf(lg)) |-> CallsOf(lg)[i].h]

\* the update threw out of listener number t of the pass, after it stored v
ThrewAt(r, name, v, t) ==
  /\ r.err = "Thrown"
  /\ r.store[name].data = v
  /\ Invoked(r.log) = SubSeq(PassOrder(name), 1, t)
  /\ \A k \in 1..Len(r.log) : r.log[k].e # "return"

\* the update made again in the state r: the listeners and lists are those of
\* the state before, the update has changed the stored value only
Again(r, name, v) == update([r EXCEPT !.err = "none", !.log = << >>], name, v, 0)

\* the update was a no-op
NoOp(r2, r) ==
  /\ r2.err = "none"
  /\ r2.store = r.store
  /\ Invoked(r2.log) = << >>

C21_ThrowStopsThePass ==
  \A v \in ThrowValues :
    LET t == FirstThrower(X)
        r == update(Cur, X, v, 0)
    IN (X \in DOMAIN store /\ t # 0 /\ _compareValuesDiff(v, store[X].data)) =>
         /\ ThrewAt(r, X, v, t)
         /\ IF _compareValuesDiff(v, v)
            THEN ThrewAt(Again(r, X, v), X, v, t)
            ELSE NoOp(Again(r, X, v), r)

\* C21 as it was stated: the same update made again is a no-op for every value
C21_RepeatedUpdateIsNoOp ==
  \A v \in ThrowValues :
    LET t == FirstThrower(X)
        r == update(Cur, X, v, 0)
    IN (X \in DOMAIN store /\ t # 0 /\ _compareValuesDiff(v, store[X].data)) =>
         /\ ThrewAt(r, X, v, t)
         /\ NoOp(Again(r, X, v), r)

\* the first of two listeners of x throws: update(x, 'abc') throws after it has
\* stored 'abc', the second listener is not invoked, and the same update again
\* does nothing; update(x, f) with a function f throws both times
C21_Witness ==
  /\ X \in DOMAIN store
  /\ store[X].data = Null
  /\ RegisteredData(X) = <<1, 2>>
  /\ handles[1].onChange = Thrower
  /\ handles[2].onChange = Nop
  /\ LET r == update(Cur, X, Abc, 0)
         f == update(Cur, X, Fn(1), 0)
     IN /\ r.err = "Thrown"
        /\ r.store[X].data = Abc
        /\ Invoked(r.log) = <<1>>
        /\ NoOp(Again(r, X, Abc), r)
        /\ f.err = "Thrown"
        /\ Again(f, X, Fn(1)).err = "Thrown"
        /\ Invoked(Again(f, X, Fn(1)).log) = <<1>>

====
